---- MODULE Spec2Model ----
(***************************************************************************)
(* Model of src/color/creating_reading.js (p5.js, module Color, submodule  *)
(* "Creating & Reading"): the colour object built by color(), the seven    *)
(* channel accessors, lerpColor and the private conversion rgb2hsv.        *)
(*                                                                         *)
(* JavaScript numbers are modelled as exact rationals [n, d] in lowest     *)
(* terms with d > 0.  The only place where IEEE-754 doubles and exact      *)
(* arithmetic part ways in rgb2hsv is Math.round on a product that is      *)
(* exactly k + 1/2: the double may fall just below the half and round to   *)
(* k.  RoundDouble therefore yields both k + 1 and k for such a product,   *)
(* and rgb2hsv is the set of triples the build can return.                 *)
(***************************************************************************)
EXTENDS Integers, Sequences, FiniteSets, TLC

VARIABLES
  colorMode,  \* this._colorMode: RGB or HSB
  maxRGB,     \* this._maxRGB: the four channel maxima of RGB mode
  maxHSB,     \* this._maxHSB: the four channel maxima of HSB mode
  colors,     \* the colour objects color() has returned, in creation order
  made,       \* ghost: per colour object, the mode, maxima and arguments of its construction
  calls,      \* ghost: per colour object, the number of rgb2hsv calls made for it
  asked,      \* ghost: per colour object, whether hue, saturation or brightness was called on it
  ret,        \* the last operation and the value it returned
  inter,      \* SpecLerp: the last lerpColor call, its arguments and its result
  hin,        \* SpecHsv: the arguments <<r, g, b>> handed to rgb2hsv
  hout        \* SpecHsv: the triple rgb2hsv returned, or Undefined before the call

vars == <<colorMode, maxRGB, maxHSB, colors, made, calls, asked, ret, inter, hin, hout>>

\* JavaScript's undefined: an absent field, a value not yet returned.
Undefined == "undefined"

\* The value of inter before lerpColor has been called.
NoCall == [called |-> FALSE]

(***************************************************************************)
(* Exact numbers.                                                          *)
(***************************************************************************)
Abs(i) == IF i < 0 THEN -i ELSE i

RECURSIVE GCD(_, _)
GCD(a, b) == IF b = 0 THEN a ELSE GCD(b, a % b)

\* The number n/d (d # 0) in lowest terms with a positive denominator.
Frac(n, d) ==
  LET s == IF d < 0 THEN -1 ELSE 1
      g == GCD(Abs(n), Abs(d))
  IN  [n |-> (s * n) \div g, d |-> (s * d) \div g]

Q(i) == [n |-> i, d |-> 1]

Zero == Q(0)
One == Q(1)

RAdd(x, y) == Frac(x.n * y.d + y.n * x.d, x.d * y.d)
RSub(x, y) == Frac(x.n * y.d - y.n * x.d, x.d * y.d)
RMul(x, y) == Frac(x.n * y.n, x.d * y.d)
RDiv(x, y) == Frac(x.n * y.d, x.d * y.n)
RLess(x, y) == x.n * y.d < y.n * x.d
RLeq(x, y) == x.n * y.d <= y.n * x.d

\* Math.min and Math.max of three numbers.
MathMin(x, y, z) ==
  LET m == IF RLess(y, x) THEN y ELSE x IN IF RLess(z, m) THEN z ELSE m

MathMax(x, y, z) ==
  LET m == IF RLess(x, y) THEN y ELSE x IN IF RLess(m, z) THEN z ELSE m

\* Math.round of the exact number x: floor(x + 1/2), halves go up.
MathRound(x) == (2 * x.n + x.d) \div (2 * x.d)

\* x is exactly k + 1/2 for an integer k.
IsHalf(x) == x.d = 2

\* What Math.round can return for a double that approximates x.
RoundDouble(x) ==
  IF IsHalf(x) THEN {MathRound(x), MathRound(x) - 1} ELSE {MathRound(x)}

(***************************************************************************)
(* rgb2hsv (lines 353-397).                                                *)
(***************************************************************************)
\* The display range every channel is normalized to.
DisplayMax == 255

var_X(x) == RDiv(x, Q(DisplayMax))

var_Min(r, g, b) == MathMin(var_X(r), var_X(g), var_X(b))

\* Fault variant: the maximum taken over red and green only.
var_Max_noBlue(r, g, b) == MathMax(var_X(r), var_X(g), var_X(g))

var_Max(r, g, b) == MathMax(var_X(r), var_X(g), var_X(b))

del_Max(r, g, b) == RSub(var_Max(r, g, b), var_Min(r, g, b))

\* del_R, del_G, del_B: the channel x's distance from the maximum, for
\* del_Max # 0.
del_X(x, r, g, b) ==
  RDiv(RAdd(RDiv(RSub(var_Max(r, g, b), var_X(x)), Q(6)),
            RDiv(del_Max(r, g, b), Q(2))),
       del_Max(r, g, b))

\* The hue each of the three branches assigns, before the wrap.
hueR(r, g, b) == RSub(del_X(b, r, g, b), del_X(g, r, g, b))

\* Fault variant: the green branch with the blue branch's offset.
hueG_offset(r, g, b) ==
  RSub(RAdd(Frac(2, 3), del_X(r, r, g, b)), del_X(b, r, g, b))

hueG(r, g, b) ==
  RSub(RAdd(Frac(1, 3), del_X(r, r, g, b)), del_X(b, r, g, b))

hueB(r, g, b) ==
  RSub(RAdd(Frac(2, 3), del_X(g, r, g, b)), del_X(r, r, g, b))

\* Fault variant: the wrap without its first step.
wrap_noAdd(H) == IF RLess(One, H) THEN RSub(H, One) ELSE H

\* if (H<0) H += 1; if (H>1) H -= 1;
wrap(H) ==
  LET H1 == IF RLess(H, Zero) THEN RAdd(H, One) ELSE H
  IN  IF RLess(One, H1) THEN RSub(H1, One) ELSE H1

\* The branch the if / else if chain takes, in the order r, g, b.
branch(r, g, b) ==
  IF var_X(r) = var_Max(r, g, b) THEN "r"
  ELSE IF var_X(g) = var_Max(r, g, b) THEN "g"
  ELSE "b"

\* H, S and V in [0, 1] as they stand before the return statement.
hsv01(r, g, b) ==
  IF del_Max(r, g, b) = Zero
  THEN [H |-> Zero, S |-> Zero, V |-> var_Max(r, g, b)]
  ELSE [H |-> wrap(CASE branch(r, g, b) = "r" -> hueR(r, g, b)
                     [] branch(r, g, b) = "g" -> hueG(r, g, b)
                     [] OTHER -> hueB(r, g, b)),
        S |-> RDiv(del_Max(r, g, b), var_Max(r, g, b)),
        V |-> var_Max(r, g, b)]

\* The triples [round(H*255), round(S*255), round(V*255)] the call can return.
rgb2hsv(r, g, b) ==
  LET x == hsv01(r, g, b)
  IN  { <<h, s, v>> : h \in RoundDouble(RMul(x.H, Q(255))),
                      s \in RoundDouble(RMul(x.S, Q(255))),
                      v \in RoundDouble(RMul(x.V, Q(255))) }

(***************************************************************************)
(* The colour context and color() (lines 161-193).                         *)
(***************************************************************************)
RGB == "rgb"
HSB == "hsb"

\* A sequence of integers as a sequence of numbers.
Nums(xs) == [i \in 1 .. Len(xs) |-> Q(xs[i])]

\* getNormalizedColor (defined outside this file, called at line 190): by
\* its documented contract each channel is scaled linearly from [0, max]
\* onto [0, 255].
getNormalizedColor(raw, maxArr) ==
  [i \in 1 .. 4 |-> RDiv(RMul(raw[i], Q(DisplayMax)), Q(maxArr[i]))]

\* getColorString (defined outside this file, called at line 191): the
\* display string, a function of rgba alone.
getColorString(rgba) == <<"rgba", rgba[1], rgba[2], rgba[3], rgba[4]>>

\* Fault variant: color() that keeps no hsba in HSB mode.
color_noStore(args, mode, mRGB, mHSB) ==
  LET maxArr == IF mode = RGB THEN mRGB ELSE mHSB
      wide == Len(args) >= 3
      r == args[1]
      g == IF wide THEN args[2] ELSE IF mode = RGB THEN args[1] ELSE Zero
      b == IF wide THEN args[3] ELSE args[1]
      a == IF wide
           THEN IF Len(args) >= 4 THEN args[4] ELSE Q(maxArr[4])
           ELSE IF Len(args) >= 2 THEN args[2] ELSE Q(maxArr[4])
      rgba == getNormalizedColor(<<r, g, b, a>>, maxArr)
  IN  [isColor |-> TRUE, hsba |-> Undefined, rgba |-> rgba,
       colorString |-> getColorString(rgba)]

\* color(args...) under the mode and maxima given: the object it returns.
color(args, mode, mRGB, mHSB) ==
  LET isRGB == mode = RGB
      maxArr == IF isRGB THEN mRGB ELSE mHSB
      wide == Len(args) >= 3
      r == args[1]
      g == IF wide THEN args[2] ELSE IF isRGB THEN args[1] ELSE Zero
      b == IF wide THEN args[3] ELSE args[1]
      a == IF wide
           THEN IF Len(args) >= 4 THEN args[4] ELSE Q(maxArr[4])
           ELSE IF Len(args) >= 2 THEN args[2] ELSE Q(maxArr[4])
      rgba == getNormalizedColor(<<r, g, b, a>>, maxArr)
  IN  [isColor |-> TRUE,
       hsba |-> IF ~isRGB THEN <<r, g, b, a>> ELSE Undefined,
       rgba |-> rgba,
       colorString |-> getColorString(rgba)]

\* Fault variant: the cache test that never finds the cached tuple.
hasHsba_never(c) == FALSE

\* The accessors' test of c.hsba (the negation of !c.hsba).
hasHsba(c) == c.hsba # Undefined

\* Fault variant: the cache fill that also overwrites rgba with the converted tuple.
fillHsba_clobber(c) ==
  { [c EXCEPT !.hsba = Nums(t) \o <<c.rgba[4]>>,
              !.rgba = Nums(t) \o <<c.rgba[4]>>] :
      t \in rgb2hsv(c.rgba[1], c.rgba[2], c.rgba[3]) }

\* c.hsba = rgb2hsv(c.rgba[0], c.rgba[1], c.rgba[2]).concat(c.rgba[3]):
\* the objects the assignment can leave.
fillHsba(c) ==
  { [c EXCEPT !.hsba = Nums(t) \o <<c.rgba[4]>>] :
      t \in rgb2hsv(c.rgba[1], c.rgba[2], c.rgba[3]) }

(***************************************************************************)
(* Spec: the colour context, the colour objects and the accessors.         *)
(***************************************************************************)
MaxColors == 1

\* The maxima colorMode() is called with.
Maxima == {255, 100}

\* The argument lists color() is called with.
ArgChoices == { <<50, 55, 100>>, <<0, 126, 255, 102>>, <<65>>, <<20, 60>> }

\* The non-colour values the accessors are called with.
Scalars == {65}

InitContext ==
  /\ colorMode = RGB
  /\ maxRGB = <<255, 255, 255, 255>>
  /\ maxHSB = <<255, 255, 255, 255>>

InitHeap ==
  /\ colors = <<>>
  /\ made = <<>>
  /\ calls = <<>>
  /\ asked = <<>>
  /\ ret = [op |-> "none", ref |-> 0, hit |-> FALSE, val |-> Undefined]

Init ==
  /\ InitContext
  /\ InitHeap
  /\ inter = NoCall
  /\ hin = <<0, 0, 0>>
  /\ hout = Undefined

\* colorMode(mode, max) (defined outside this file): selects the mode and
\* sets that mode's four maxima.
ColorMode ==
  \E mode \in {RGB, HSB}, m \in Maxima :
    /\ colorMode' = mode
    /\ maxRGB' = IF mode = RGB THEN <<m, m, m, m>> ELSE maxRGB
    /\ maxHSB' = IF mode = HSB THEN <<m, m, m, m>> ELSE maxHSB
    /\ ret' = [op |-> "colorMode", ref |-> 0, hit |-> FALSE, val |-> Undefined]
    /\ UNCHANGED <<colors, made, calls, asked, inter, hin, hout>>

\* The construction record kept for a colour made now from args.
Origin(args) ==
  [isRGB |-> colorMode = RGB,
   maxArr |-> IF colorMode = RGB THEN maxRGB ELSE maxHSB,
   args |-> args]

\* c = color(args...)
Color ==
  \E a \in ArgChoices :
    /\ Len(colors) < MaxColors
    /\ colors' = Append(colors, color(Nums(a), colorMode, maxRGB, maxHSB))
    /\ made' = Append(made, Origin(Nums(a)))
    /\ calls' = Append(calls, 0)
    /\ asked' = Append(asked, FALSE)
    /\ ret' = [op |-> "color", ref |-> Len(colors) + 1, hit |-> FALSE,
               val |-> Undefined]
    /\ UNCHANGED <<colorMode, maxRGB, maxHSB, inter, hin, hout>>

\* What an accessor is called with: a colour object or a plain number.
Inputs ==
  { [kind |-> "color", i |-> i, n |-> 0] : i \in 1 .. Len(colors) }
    \cup { [kind |-> "number", i |-> 0, n |-> v] : v \in Scalars }

\* if (!c.isColor) { c = this.color(c); }: the object read, and the objects
\* that exist once it is made.
Target(x) == IF x.kind = "color" THEN x.i ELSE Len(colors) + 1

Held(x) ==
  IF x.kind = "color" THEN colors
  ELSE Append(colors, color(<<Q(x.n)>>, colorMode, maxRGB, maxHSB))

Room(x) == x.kind = "number" => Len(colors) < MaxColors

HeldGhost(x, g, v) == IF x.kind = "color" THEN g ELSE Append(g, v)

\* The body the four rgba accessors share: return c.rgba[k].
ReadRgba(op, k, x) ==
  /\ Room(x)
  /\ colors' = Held(x)
  /\ made' = HeldGhost(x, made, Origin(<<Q(x.n)>>))
  /\ calls' = HeldGhost(x, calls, 0)
  /\ asked' = HeldGhost(x, asked, FALSE)
  /\ ret' = [op |-> op, ref |-> Target(x), hit |-> FALSE,
             val |-> Held(x)[Target(x)].rgba[k]]
  /\ UNCHANGED <<colorMode, maxRGB, maxHSB, inter, hin, hout>>

\* The body the three hsba accessors share: fill c.hsba when it is absent,
\* then return c.hsba[k].  ret.hit records that the tuple was found cached.
ReadHsba(op, k, x) ==
  /\ Room(x)
  /\ LET i == Target(x)
         c == Held(x)[i]
     IN  \E c2 \in (IF hasHsba(c) THEN {c} ELSE fillHsba(c)) :
           /\ colors' = [Held(x) EXCEPT ![i] = c2]
           /\ calls' = [HeldGhost(x, calls, 0) EXCEPT
                          ![i] = IF hasHsba(c) THEN @ ELSE @ + 1]
           /\ asked' = [HeldGhost(x, asked, FALSE) EXCEPT ![i] = TRUE]
           /\ ret' = [op |-> op, ref |-> i, hit |-> hasHsba(c),
                      val |-> c2.hsba[k]]
  /\ made' = HeldGhost(x, made, Origin(<<Q(x.n)>>))
  /\ UNCHANGED <<colorMode, maxRGB, maxHSB, inter, hin, hout>>

Alpha == \E x \in Inputs : ReadRgba("alpha", 4, x)

Blue == \E x \in Inputs : ReadRgba("blue", 3, x)

Brightness == \E x \in Inputs : ReadHsba("brightness", 3, x)

Green == \E x \in Inputs : ReadRgba("green", 2, x)

Hue == \E x \in Inputs : ReadHsba("hue", 1, x)

Red == \E x \in Inputs : ReadRgba("red", 1, x)

Saturation == \E x \in Inputs : ReadHsba("saturation", 2, x)

Next ==
  \/ ColorMode
  \/ Color
  \/ Alpha
  \/ Blue
  \/ Brightness
  \/ Green
  \/ Hue
  \/ Red
  \/ Saturation

Spec == Init /\ [][Next]_vars

(***************************************************************************)
(* lerpColor (lines 285-295) and SpecLerp.                                 *)
(*                                                                         *)
(* A JavaScript value handed to lerpColor is a number, an array of numbers *)
(* or a colour object; typeof is "object" for the last two, and only an    *)
(* array has a length.                                                     *)
(***************************************************************************)
Number(x) == [kind |-> "number", n |-> x]
Array(xs) == [kind |-> "array", elems |-> xs]
ColorObject(c) == [kind |-> "color", obj |-> c]

typeof(v) == IF v.kind = "number" THEN "number" ELSE "object"

\* v has a length property: an array has, a colour object has none.
hasLength(v) == v.kind = "array"

\* i < v.length in JavaScript: false when v.length is undefined.
lessThanLength(i, v) == hasLength(v) /\ i < Len(v.elems)

\* p5.prototype.lerp (defined outside this file, called at lines 289 and
\* 293): start + (stop - start) * amt, amt not clamped.
lerp(start, stop, amt) == RAdd(RMul(amt, RSub(stop, start)), start)

\* for (var i=0; i<c1.length; i++) { c.push(lerp(c1[i], c2[i], amt)); }
RECURSIVE lerpLoop(_, _, _, _, _)
lerpLoop(c1, c2, amt, i, c) ==
  IF lessThanLength(i, c1)
  THEN lerpLoop(c1, c2, amt, i + 1,
                Append(c, lerp(c1.elems[i + 1], c2.elems[i + 1], amt)))
  ELSE c

lerpColor(c1, c2, amt) ==
  IF typeof(c1) = "object"
  THEN Array(lerpLoop(c1, c2, amt, 0, <<>>))
  ELSE Number(lerp(c1.n, c2.n, amt))

MaxLerpColors == 2

\* The colours of lerpColor's documented example.
ExampleArgs == { <<204, 102, 0>>, <<0, 102, 153>> }

\* The scalar endpoints and the amounts lerpColor is called with.
LerpScalars == {0, 51, 255}

Amounts == { Frac(-1, 2), Zero, Frac(33, 100), Frac(1, 2), One, Frac(3, 2) }

\* Pairs of like values: two numbers, two arrays of one length, two colours.
LerpPairs ==
  { <<Number(Q(a)), Number(Q(b))>> : a \in LerpScalars, b \in LerpScalars }
    \cup { <<Array(Nums(a)), Array(Nums(b))>> : a \in ExampleArgs, b \in ExampleArgs }
    \cup { <<ColorObject(colors[i]), ColorObject(colors[j])>> :
             i \in 1 .. Len(colors), j \in 1 .. Len(colors) }

InitLerp ==
  /\ InitContext
  /\ InitHeap
  /\ inter = NoCall
  /\ hin = <<0, 0, 0>>
  /\ hout = Undefined

\* from = color(204, 102, 0); to = color(0, 102, 153);
ColorExample ==
  \E a \in ExampleArgs :
    /\ Len(colors) < MaxLerpColors
    /\ colors' = Append(colors, color(Nums(a), colorMode, maxRGB, maxHSB))
    /\ made' = Append(made, Origin(Nums(a)))
    /\ calls' = Append(calls, 0)
    /\ asked' = Append(asked, FALSE)
    /\ ret' = [op |-> "color", ref |-> Len(colors) + 1, hit |-> FALSE,
               val |-> Undefined]
    /\ UNCHANGED <<colorMode, maxRGB, maxHSB, inter, hin, hout>>

\* inter = lerpColor(c1, c2, amt)
LerpColor ==
  \E pr \in LerpPairs, amt \in Amounts :
    /\ inter' = [called |-> TRUE, c1 |-> pr[1], c2 |-> pr[2], amt |-> amt,
                out |-> lerpColor(pr[1], pr[2], amt)]
    /\ ret' = [op |-> "lerpColor", ref |-> 0, hit |-> FALSE, val |-> Undefined]
    /\ UNCHANGED <<colorMode, maxRGB, maxHSB, colors, made, calls, asked, hin, hout>>

NextLerp ==
  \/ ColorExample
  \/ LerpColor

SpecLerp == InitLerp /\ [][NextLerp]_vars

(***************************************************************************)
(* SpecHsv: rgb2hsv applied to integer channels drawn from a bounded set.  *)
(***************************************************************************)
ChanSpan == 12

ChanSet == (0 .. ChanSpan) \cup ((DisplayMax - ChanSpan) .. DisplayMax) \cup {127, 128}

InitHsv ==
  /\ hin \in ChanSet \X ChanSet \X ChanSet
  /\ hout = Undefined
  /\ InitContext
  /\ InitHeap
  /\ inter = NoCall

Rgb2hsvCall ==
  /\ hout = Undefined
  /\ \E o \in rgb2hsv(Q(hin[1]), Q(hin[2]), Q(hin[3])) : hout' = o
  /\ UNCHANGED <<hin, colorMode, maxRGB, maxHSB, colors, made, calls, asked, ret, inter>>

NextHsv == Rgb2hsvCall

SpecHsv == InitHsv /\ [][NextHsv]_vars

(***************************************************************************)
(* Claims about the colour objects and the accessors, verified under Spec.  *)
(***************************************************************************)
Refs == 1 .. Len(colors)
HsbaOps == {"hue", "saturation", "brightness"}
RgbOps == {"red", "green", "blue"}
Channel(op) ==
  CASE op \in {"hue", "red"} -> 1
    [] op \in {"saturation", "green"} -> 2
    [] op \in {"brightness", "blue"} -> 3
    [] OTHER -> 4

\* C1: on one colour object rgb2hsv is called at most once over any sequence
\* of hue, saturation and brightness calls, and exactly once for an object
\* made in RGB mode as soon as one of them has been called.
C1_Rgb2hsvAtMostOnce ==
  \A i \in Refs :
    /\ calls[i] <= 1
    /\ (made[i].isRGB /\ asked[i]) => calls[i] = 1
    /\ ~asked[i] => calls[i] = 0

\* A saturation call on an RGB-made object that found the tuple an earlier
\* accessor call had cached.
C1_Witness ==
  /\ ret.op = "saturation"
  /\ ret.hit
  /\ made[ret.ref].isRGB
  /\ calls[ret.ref] = 1

\* C2: every colour object whose hsba is present has
\* hsba = rgb2hsv(rgba[0], rgba[1], rgba[2]) followed by rgba[3], whatever
\* mode and maxima it was made under.
C2_HsbaDerivedFromRgba ==
  \A i \in Refs :
    colors[i].hsba # Undefined =>
      \E t \in rgb2hsv(colors[i].rgba[1], colors[i].rgba[2], colors[i].rgba[3]) :
        colors[i].hsba = Nums(t) \o <<colors[i].rgba[4]>>

\* C5: for c = color(r, g, b) made in RGB mode under any maxima, red, green
\* and blue return r, g and b while that mode and those maxima are active.
C5_ChannelIsArgument ==
  ( /\ ret.op \in RgbOps
    /\ made[ret.ref].isRGB
    /\ Len(made[ret.ref].args) >= 3
    /\ colorMode = RGB
    /\ maxRGB = made[ret.ref].maxArr )
  => ret.val = made[ret.ref].args[Channel(ret.op)]

\* The raw hue, saturation and brightness of a constructor call in HSB mode.
RawHsb(args) ==
  IF Len(args) >= 3 THEN <<args[1], args[2], args[3]>>
  ELSE <<args[1], Zero, args[1]>>

\* C6: for an object made in HSB mode, hue, saturation and brightness return
\* the raw constructor values (v, 0, v for a single value v), rgb2hsv is
\* never called for it, whatever mode and maxima are active at the call.
C6_HsbRawValues ==
  /\ \A i \in Refs : ~made[i].isRGB => calls[i] = 0
  /\ (ret.op \in HsbaOps /\ ~made[ret.ref].isRGB) =>
       ret.val = RawHsb(made[ret.ref].args)[Channel(ret.op)]

\* A saturation call in RGB mode on an object made in HSB mode from a single
\* value.
C6_Witness ==
  /\ ret.op = "saturation"
  /\ ~made[ret.ref].isRGB
  /\ Len(made[ret.ref].args) = 1
  /\ colorMode = RGB
  /\ ret.val = Zero

\* C9: rgba is present once color() has returned and no step changes it or
\* the colour string; the only field a step writes in an existing object is
\* hsba, and only from absent to present.
C9_RgbaImmutable ==
  /\ [](\A i \in Refs : Len(colors[i].rgba) = 4)
  /\ [][ /\ Len(colors') >= Len(colors)
         /\ \A i \in Refs :
              /\ colors'[i].rgba = colors[i].rgba
              /\ colors'[i].colorString = colors[i].colorString
              /\ colors'[i].isColor = colors[i].isColor
              /\ colors'[i].hsba # colors[i].hsba =>
                   (colors[i].hsba = Undefined /\ colors'[i].hsba # Undefined)
       ]_vars

\* An alpha call on an RGB-made object whose hsba an earlier call has filled.
C9_Witness ==
  /\ ret.op = "alpha"
  /\ made[ret.ref].isRGB
  /\ calls[ret.ref] = 1
  /\ colors[ret.ref].hsba # Undefined
  /\ Len(made[ret.ref].args) = 3
  /\ colors[ret.ref].rgba = getNormalizedColor(
       <<made[ret.ref].args[1], made[ret.ref].args[2], made[ret.ref].args[3],
         Q(made[ret.ref].maxArr[4])>>, made[ret.ref].maxArr)

(***************************************************************************)
(* Claims about lerpColor, verified under SpecLerp.                         *)
(***************************************************************************)
\* C3: lerpColor clamps amt: below 0 the result is lerpColor(c1, c2, 0),
\* above 1 it is lerpColor(c1, c2, 1), for numbers and arrays alike.
C3_AmountClamped ==
  (inter.called /\ inter.c1.kind # "color") =>
    /\ RLess(inter.amt, Zero) => inter.out = lerpColor(inter.c1, inter.c2, Zero)
    /\ RLess(One, inter.amt) => inter.out = lerpColor(inter.c1, inter.c2, One)

\* C4: for two colour objects returned by color(), lerpColor returns as many
\* components as the colours have channels, component i being
\* lerp(c1 channel i, c2 channel i, amt), and never an empty result.
C4_ColorsInterpolated ==
  (inter.called /\ inter.c1.kind = "color" /\ inter.c2.kind = "color") =>
    /\ inter.out.kind = "array"
    /\ inter.out.elems # <<>>
    /\ Len(inter.out.elems) = Len(inter.c1.obj.rgba)
    /\ \A k \in 1 .. Len(inter.out.elems) :
         inter.out.elems[k] = lerp(inter.c1.obj.rgba[k], inter.c2.obj.rgba[k], inter.amt)

(***************************************************************************)
(* Claims about rgb2hsv, verified under SpecHsv.                            *)
(***************************************************************************)
hR == Q(hin[1])
hG == Q(hin[2])
hB == Q(hin[3])
Returned == hout # Undefined
Chromatic == del_Max(hR, hG, hB) # Zero
IntMax3 ==
  LET m == IF hin[1] < hin[2] THEN hin[2] ELSE hin[1]
  IN  IF m < hin[3] THEN hin[3] ELSE m

\* C7: for integer r, g, b in [0,255] every component rgb2hsv returns is an
\* integer in [0,255], and the hue after the wrap step lies in [0,1].
C7_ComponentsInRange ==
  Returned =>
    /\ \A i \in 1 .. 3 : hout[i] \in 0 .. DisplayMax
    /\ RLeq(Zero, hsv01(hR, hG, hB).H)
    /\ RLeq(hsv01(hR, hG, hB).H, One)

\* A call on the red branch whose hue was negative before the wrap.
C7_Witness ==
  /\ Returned
  /\ Chromatic
  /\ branch(hR, hG, hB) = "r"
  /\ RLess(hueR(hR, hG, hB), Zero)
  /\ hout[1] > 0

C10_TiedBranchesAgree ==
  (Returned /\ Chromatic) =>
    /\ (hin[1] = hin[2] /\ hin[2] > hin[3]) =>
          /\ wrap(hueR(hR, hG, hB)) = wrap(hueG(hR, hG, hB))
          /\ hout[1] \in RoundDouble(RMul(wrap(hueG(hR, hG, hB)), Q(255)))
    /\ (hin[1] = hin[3] /\ hin[3] > hin[2]) =>
          /\ wrap(hueR(hR, hG, hB)) = wrap(hueB(hR, hG, hB))
          /\ hout[1] \in RoundDouble(RMul(wrap(hueB(hR, hG, hB)), Q(255)))
    /\ (hin[2] = hin[3] /\ hin[3] > hin[1]) =>
          /\ wrap(hueG(hR, hG, hB)) = wrap(hueB(hR, hG, hB))
          /\ hout[1] \in RoundDouble(RMul(wrap(hueB(hR, hG, hB)), Q(255)))

\* A call with red and blue tied at the maximum: the red branch is taken
\* and its negative hue is wrapped.
C10_Witness ==
  /\ Returned
  /\ hin[1] = hin[3]
  /\ hin[3] > hin[2]
  /\ branch(hR, hG, hB) = "r"
  /\ RLess(hueR(hR, hG, hB), Zero)

====
